---- MODULE Spec2Model ----
(***************************************************************************)
(* Model of qby0/finance-tracker-webapp:                                   *)
(*   - src/src/components/FinancialAnalytics.js, the React component that  *)
(*     posts the transaction list to the four analytics endpoints and      *)
(*     renders the four result tabs;                                        *)
(*   - src/server/start_services.sh, the launcher of the two services.     *)
(*                                                                         *)
(* JavaScript values are tagged tuples whose first element names the JS    *)
(* type: <<"null">>, <<"undef">>, <<"num", n>>, <<"str", s>>,               *)
(* <<"iso", y, m, d>> (the string "YYYY-MM-DD"), <<"date", y, m, d>> (a    *)
(* Date object, UTC fields), <<"invaliddate">> (a Date whose time value is *)
(* NaN), <<"array", seq>>, <<"obj", record>>.  Numbers are integers in     *)
(* thousandths of a unit, so that toFixed(2) is a real rounding.           *)
(***************************************************************************)
EXTENDS Integers, Sequences, FiniteSets, TLC

\* Largest number of fetchAnalytics runs suspended at an await at one time.
MaxInFlight == 2

Null == <<"null">>
Undef == <<"undef">>
EmptyStr == <<"str", "">>

Views == 1..4
STATISTICS == 1
TRENDS == 2
RISK == 3
FORECAST == 4

\* The four endpoints, in the order fetchAnalytics calls them.
Url == <<"/api/financial/statistics", "/api/financial/trends",
         "/api/financial/risk-metrics", "/api/financial/forecast">>

\* The per-endpoint parameter sent next to the transactions.
ExtraParam == << <<>>, <<"window_size", 7>>, <<>>, <<"forecast_days", 30>> >>

----------------------------------------------------------------------------
(* Inputs: the values the parent passes as the costs prop.                 *)

CostRent ==
    [cost |-> <<"num", 100000>>, type |-> <<"str", "expense">>,
     date |-> <<"iso", 2024, 1, 1>>, description |-> <<"str", "rent">>,
     category |-> <<"str", "home">>]

CostSalary ==
    [cost |-> <<"num", 50000>>, type |-> <<"str", "income">>,
     date |-> <<"date", 2024, 1, 2>>, description |-> Undef,
     category |-> EmptyStr]

CostBadDate ==
    [cost |-> <<"num", 1999>>, type |-> <<"str", "expense">>,
     date |-> <<"invaliddate">>, description |-> <<"str", "scan">>,
     category |-> Undef]

CostsInputs ==
    { Null,
      <<"array", <<>> >>,
      <<"array", <<CostRent>> >>,
      <<"array", <<CostRent, CostSalary>> >>,
      <<"array", <<CostSalary, CostBadDate>> >> }

\* The result objects the analytics service may answer with.
StatisticsResults == { <<"obj", [mean |-> -25000, count |-> 2]>> }

TrendsResults ==
    { <<"obj", [average_growth_rate |-> 12345, volatility |-> 555,
                moving_average |-> ma]>> :
        ma \in { Undef, <<"array", <<>> >>, <<"array", <<0>> >>,
                 <<"array", <<1004, 2345, -1255>> >> } }

RiskResults == { <<"obj", [volatility |-> 150, sharpe_ratio |-> -667]>> }

ForecastResults ==
    { <<"obj", [trend_slope |-> 1500, trend_intercept |-> -200,
                forecast_values |-> <<"array", <<1300, 2800>> >>]>> }

ResultsOf(v) ==
    CASE v = STATISTICS -> StatisticsResults
      [] v = TRENDS     -> TrendsResults
      [] v = RISK       -> RiskResults
      [] v = FORECAST   -> ForecastResults

----------------------------------------------------------------------------
VARIABLES
    costs,          \* the costs prop of the latest render
    statistics,     \* useState(null)
    trends,         \* useState(null)
    riskMetrics,    \* useState(null)
    forecast,       \* useState(null)
    loading,        \* useState(false)
    effectPending,  \* the [costs] effect of the latest render has not run yet
    runs,           \* the suspended fetchAnalytics invocations, oldest first
    \* start_services.sh
    line,           \* the line the script is about to execute, 0 once it has ended
    trapSet,        \* the INT/TERM trap of line 28 is installed
    bang,           \* $!, the pid of the last background command, 0 while unset
    PYTHON_PID,     \* 0 while unset
    NODE_PID,       \* 0 while unset
    procs,          \* the launched services: pid -> "running" | "exited"
    killed,         \* the pids the script's kill has signalled
    ending          \* how the script ended: "" | "signal" | "trap" | "eof"

compVars == <<costs, statistics, trends, riskMetrics, forecast, loading,
              effectPending, runs>>
scriptVars == <<line, trapSet, bang, PYTHON_PID, NODE_PID, procs, killed, ending>>
vars == <<compVars, scriptVars>>

----------------------------------------------------------------------------
(* Pure helpers of the component.                                          *)

Items(x) == x[2]

\* JS truthiness of the values that occur here.
Truthy(x) ==
    CASE x[1] = "null"  -> FALSE
      [] x[1] = "undef" -> FALSE
      [] x[1] = "str"   -> x[2] # ""
      [] x[1] = "num"   -> x[2] # 0
      [] OTHER          -> TRUE

\* x || '' .
OrEmpty(x) == IF Truthy(x) THEN x ELSE EmptyStr

\* Date.prototype.toISOString throws a RangeError on an invalid Date.
FormatDateThrows(date) == date[1] = "invaliddate"

\* formatDate: a Date becomes the date part of its ISO string, anything
\* else is returned as it is.
formatDate(date) ==
    IF date[1] = "date" THEN <<"iso", date[2], date[3], date[4]>> ELSE date

\* The object literal built for one cost.
PrepareOne(cost) ==
    [cost        |-> cost.cost,
     type        |-> cost.type,
     date        |-> formatDate(cost.date),
     description |-> OrEmpty(cost.description),
     category    |-> OrEmpty(cost.category)]

\* prepareTransactions throws when formatDate throws for some element.
PrepareThrows(cs) ==
    \E i \in 1..Len(Items(cs)) : FormatDateThrows(Items(cs)[i].date)

prepareTransactions(cs) ==
    [i \in 1..Len(Items(cs)) |-> PrepareOne(Items(cs)[i])]

\* JSON.stringify of an object leaves out the properties whose value is
\* undefined.
Stringify(obj) ==
    [f \in {g \in DOMAIN obj : obj[g] # Undef} |-> obj[f]]

StringifyAll(txs) == [i \in 1..Len(txs) |-> Stringify(txs[i])]

\* Number.prototype.toFixed(2): thousandths to hundredths, half away from 0.
ToFixed2(x) == IF x >= 0 THEN (x + 5) \div 10 ELSE -((-x + 5) \div 10)


----------------------------------------------------------------------------
(* Rendering.  A rendered element is <<"p", text>> for a placeholder       *)
(* paragraph, or <<"section", title, fields>>.                             *)

renderStatistics(s) ==
    IF ~Truthy(s) THEN <<"p", "No statistics available">>
    ELSE <<"section", "Statistical Analysis (NumPy)",
           [mean |-> ToFixed2(s[2].mean), count |-> s[2].count]>>

\* The moving-average line with the length test left out: an empty array is
\* truthy, its element at index -1 is undefined, and toFixed throws.
MovingAverageLine_NoLengthTest(ma) ==
    IF Truthy(ma)
    THEN IF Len(Items(ma)) > 0
         THEN <<"value", ToFixed2(Items(ma)[Len(Items(ma))])>>
         ELSE <<"throws", "TypeError">>
    ELSE <<"p", "Insufficient data for moving average calculation">>

\* The moving-average line of the trends tab.
MovingAverageLine(ma) ==
    IF Truthy(ma) /\ Len(Items(ma)) > 0
    THEN <<"value", ToFixed2(Items(ma)[Len(Items(ma))])>>
    ELSE <<"p", "Insufficient data for moving average calculation">>

renderTrends(t) ==
    IF ~Truthy(t) THEN <<"p", "No trends data available">>
    ELSE <<"section", "Trend Analysis (NumPy Moving Averages)",
           [average_growth_rate |-> ToFixed2(t[2].average_growth_rate),
            volatility          |-> ToFixed2(t[2].volatility),
            moving_average      |-> MovingAverageLine(t[2].moving_average)]>>

renderRiskMetrics(r) ==
    IF ~Truthy(r) THEN <<"p", "No risk metrics available">>
    ELSE <<"section", "Risk Metrics (NumPy Financial Analysis)",
           [volatility   |-> ToFixed2(r[2].volatility * 100),
            sharpe_ratio |-> ToFixed2(r[2].sharpe_ratio)]>>

renderForecast(f) ==
    IF ~Truthy(f) THEN <<"p", "No forecast data available">>
    ELSE <<"section", "Budget Forecast (NumPy Linear Regression)",
           [trend_slope     |-> ToFixed2(f[2].trend_slope),
            trend_intercept |-> ToFixed2(f[2].trend_intercept),
            forecast_values |->
                [i \in 1..Len(Items(f[2].forecast_values)) |->
                    ToFixed2(Items(f[2].forecast_values)[i])]]>>

\* The state a view's result is kept in.
ViewState(v) ==
    CASE v = STATISTICS -> statistics
      [] v = TRENDS     -> trends
      [] v = RISK       -> riskMetrics
      [] v = FORECAST   -> forecast

\* What the tab of view v shows (the tab selection itself is not modelled).
RenderTab(v) ==
    CASE v = STATISTICS -> renderStatistics(statistics)
      [] v = TRENDS     -> renderTrends(trends)
      [] v = RISK       -> renderRiskMetrics(riskMetrics)
      [] v = FORECAST   -> renderForecast(forecast)

IsPlaceholder(el) == el[1] = "p"

----------------------------------------------------------------------------
(* fetchAnalytics.  runs holds the invocations that are suspended at an    *)
(* await, oldest first; an invocation that has returned or thrown is no    *)
(* longer there.  The two awaits of a request, of fetch() and of           *)
(* response.json(), are one suspension point: nothing is assigned between  *)
(* them.  A run's fields: req, the request it awaits; costs, the prop its  *)
(* closure captured; transactions, its local constant; sent, the bodies it *)
(* has posted; latest, whether no fetchAnalytics call was made after it.   *)

\* useEffect's condition: costs && costs.length > 0.
HasCosts(cs) == Truthy(cs) /\ Len(Items(cs)) > 0

\* The body when the list is prepared anew for each request from the costs
\* prop of the latest render.
RequestBody_LatestCosts(txs, v) ==
    [url |-> Url[v],
     transactions |-> IF HasCosts(costs) /\ ~PrepareThrows(costs)
                      THEN StringifyAll(prepareTransactions(costs))
                      ELSE <<>>,
     extra |-> ExtraParam[v]]

\* The body of the request for view v, built from the run's transactions.
RequestBody(txs, v) ==
    [url |-> Url[v], transactions |-> StringifyAll(txs), extra |-> ExtraParam[v]]

\* setStatistics / setTrends / setRiskMetrics / setForecast.
SetView(v, val) ==
    /\ statistics'  = IF v = STATISTICS THEN val ELSE statistics
    /\ trends'      = IF v = TRENDS THEN val ELSE trends
    /\ riskMetrics' = IF v = RISK THEN val ELSE riskMetrics
    /\ forecast'    = IF v = FORECAST THEN val ELSE forecast

RemoveAt(seq, i) == [j \in 1..(Len(seq) - 1) |-> IF j < i THEN seq[j] ELSE seq[j + 1]]

Superseded(seq) == [j \in 1..Len(seq) |-> [seq[j] EXCEPT !.latest = FALSE]]

\* The run once the call has reached its first await.
StartedRun(cs) ==
    [req |-> 1, costs |-> cs, transactions |-> prepareTransactions(cs),
     sent |-> <<RequestBody(prepareTransactions(cs), 1)>>, latest |-> TRUE]

\* The parent renders the component with a new costs prop.
SetCosts(cs) ==
    /\ ~effectPending
    /\ (HasCosts(cs) /\ ~PrepareThrows(cs)) => Len(runs) < MaxInFlight
    /\ costs' = cs
    /\ effectPending' = TRUE
    /\ UNCHANGED <<statistics, trends, riskMetrics, forecast, loading, runs>>

\* The effect of the latest render: fetchAnalytics() up to its first await,
\* or up to the exception prepareTransactions throws.
RunEffect ==
    /\ effectPending
    /\ effectPending' = FALSE
    /\ IF HasCosts(costs)
       THEN /\ loading' = TRUE
            /\ runs' = IF PrepareThrows(costs)
                       THEN Superseded(runs)
                       ELSE Append(Superseded(runs), StartedRun(costs))
       ELSE UNCHANGED <<loading, runs>>
    /\ UNCHANGED <<costs, statistics, trends, riskMetrics, forecast>>

\* The finally block, after which the run is over.
Finally(r) ==
    /\ loading' = FALSE
    /\ runs' = RemoveAt(runs, r)

\* The awaited promise rejects: catch, then finally.
Catch(r) ==
    /\ Finally(r)
    /\ UNCHANGED <<costs, statistics, trends, riskMetrics, forecast,
                   effectPending>>

\* fetch() rejects (the service is unreachable).
FetchReject(r) ==
    /\ r \in 1..Len(runs)
    /\ Catch(r)

\* fetch() resolves and response.json() rejects (the body is not JSON).
JsonReject(r) ==
    /\ r \in 1..Len(runs)
    /\ Catch(r)

\* After the if of request v: the next request is issued, or finally runs.
Continue(r, v) ==
    IF v < 4
    THEN /\ runs' = [runs EXCEPT
                        ![r].req = v + 1,
                        ![r].sent = Append(@, RequestBody(runs[r].transactions, v + 1))]
         /\ UNCHANGED loading
    ELSE Finally(r)

\* response.json() resolves with { success: true, <field>: res }.
JsonSuccess(r, res) ==
    /\ r \in 1..Len(runs)
    /\ res \in ResultsOf(runs[r].req)
    /\ SetView(runs[r].req, res)
    /\ Continue(r, runs[r].req)
    /\ UNCHANGED <<costs, effectPending>>

\* response.json() resolves with { success: false, error }.
JsonFailure(r) ==
    /\ r \in 1..Len(runs)
    /\ Continue(r, runs[r].req)
    /\ UNCHANGED <<costs, statistics, trends, riskMetrics, forecast,
                   effectPending>>

AllResults == UNION {ResultsOf(v) : v \in Views}

CompInit ==
    /\ costs \in CostsInputs
    /\ statistics = Null
    /\ trends = Null
    /\ riskMetrics = Null
    /\ forecast = Null
    /\ loading = FALSE
    /\ effectPending = TRUE
    /\ runs = <<>>

\* The component before it is given any costs.
CompIdle ==
    /\ costs = Null
    /\ statistics = Null
    /\ trends = Null
    /\ riskMetrics = Null
    /\ forecast = Null
    /\ loading = FALSE
    /\ effectPending = TRUE
    /\ runs = <<>>

----------------------------------------------------------------------------
(* start_services.sh.  One step per command of the script; a signal can    *)
(* arrive before any of them.                                              *)

\* The process ids the system may hand out.
Pids == {101, 102, 103}

\* The lines that only print or change directory: 5, 8, 9, 17, 21..25.
PlainLines == {5, 8, 9, 17, 21, 22, 23, 24, 25}

\* The line executed after line l.
NextLine(l) ==
    CASE l = 5  -> 8
      [] l = 8  -> 9
      [] l = 9  -> 10
      [] l = 10 -> 11
      [] l = 11 -> 14
      [] l = 14 -> 17
      [] l = 17 -> 18
      [] l = 18 -> 19
      [] l = 19 -> 21
      [] l \in 21..24 -> l + 1
      [] l = 25 -> 28
      [] l = 28 -> 29

Launched == DOMAIN procs

\* echo ... / cd "$(dirname "$0")"
Plain ==
    /\ line \in PlainLines
    /\ line' = NextLine(line)
    /\ UNCHANGED <<trapSet, bang, PYTHON_PID, NODE_PID, procs, killed, ending>>

\* python3 python_service.py &   and   node server.js &
\* The service may also fail to start, which is an immediate exit.
Launch ==
    /\ line \in {10, 18}
    /\ \E p \in Pids \ Launched, st \in {"running", "exited"} :
          /\ procs' = [q \in Launched \cup {p} |-> IF q = p THEN st ELSE procs[q]]
          /\ bang' = p
    /\ line' = NextLine(line)
    /\ UNCHANGED <<trapSet, PYTHON_PID, NODE_PID, killed, ending>>

\* PYTHON_PID=$!
SetPythonPid ==
    /\ line = 11
    /\ PYTHON_PID' = bang
    /\ line' = NextLine(line)
    /\ UNCHANGED <<trapSet, bang, NODE_PID, procs, killed, ending>>

\* sleep 2
Sleep ==
    /\ line = 14
    /\ line' = NextLine(line)
    /\ UNCHANGED <<trapSet, bang, PYTHON_PID, NODE_PID, procs, killed, ending>>

\* NODE_PID=$!
SetNodePid ==
    /\ line = 19
    /\ NODE_PID' = bang
    /\ line' = NextLine(line)
    /\ UNCHANGED <<trapSet, bang, PYTHON_PID, procs, killed, ending>>

\* trap "kill $PYTHON_PID $NODE_PID; exit" INT TERM
Trap ==
    /\ line = 28
    /\ trapSet' = TRUE
    /\ line' = NextLine(line)
    /\ UNCHANGED <<bang, PYTHON_PID, NODE_PID, procs, killed, ending>>

\* wait returns once every background job has exited; the script ends.
WaitReturns ==
    /\ line = 29
    /\ \A p \in Launched : procs[p] = "exited"
    /\ line' = 0
    /\ ending' = "eof"
    /\ UNCHANGED <<trapSet, bang, PYTHON_PID, NODE_PID, procs, killed>>

\* A service exits on its own.
ServiceExits(p) ==
    /\ p \in Launched
    /\ procs[p] = "running"
    /\ procs' = [procs EXCEPT ![p] = "exited"]
    /\ UNCHANGED <<line, trapSet, bang, PYTHON_PID, NODE_PID, killed, ending>>

\* The trap's command: kill $PYTHON_PID $NODE_PID; exit
TrapAction ==
    /\ killed' = killed \cup ({PYTHON_PID, NODE_PID} \cap Launched)
    /\ procs' = [p \in Launched |->
                    IF p \in {PYTHON_PID, NODE_PID} THEN "exited" ELSE procs[p]]
    /\ line' = 0
    /\ ending' = "trap"
    /\ UNCHANGED <<trapSet, bang, PYTHON_PID, NODE_PID>>

\* INT or TERM is delivered to the running script.  With the trap set the
\* trap's command runs.  Without it the default disposition ends the shell
\* at once, except that an INT sent to the shell alone while it waits for
\* the foreground sleep is dropped when sleep exits normally.
Signal(sig) ==
    /\ line # 0
    /\ IF trapSet
       THEN TrapAction
       ELSE \/ /\ line' = 0
               /\ ending' = "signal"
               /\ UNCHANGED <<trapSet, bang, PYTHON_PID, NODE_PID, procs, killed>>
            \/ /\ sig = "INT"
               /\ line = 14
               /\ UNCHANGED scriptVars

ScriptIdle ==
    /\ line = 5
    /\ trapSet = FALSE
    /\ bang = 0
    /\ PYTHON_PID = 0
    /\ NODE_PID = 0
    /\ procs = <<>>
    /\ killed = {}
    /\ ending = ""

Init == CompInit /\ ScriptIdle

Runs == 1..MaxInFlight

Next ==
    \/ (\E cs \in CostsInputs : SetCosts(cs)) /\ UNCHANGED scriptVars
    \/ RunEffect /\ UNCHANGED scriptVars
    \/ (\E r \in Runs : FetchReject(r)) /\ UNCHANGED scriptVars
    \/ (\E r \in Runs : JsonReject(r)) /\ UNCHANGED scriptVars
    \/ (\E r \in Runs, res \in AllResults : JsonSuccess(r, res))
            /\ UNCHANGED scriptVars
    \/ (\E r \in Runs : JsonFailure(r)) /\ UNCHANGED scriptVars

Spec == Init /\ [][Next]_vars


ScriptInit == CompIdle /\ ScriptIdle

ScriptNext ==
    \/ Plain /\ UNCHANGED compVars
    \/ Launch /\ UNCHANGED compVars
    \/ SetPythonPid /\ UNCHANGED compVars
    \/ Sleep /\ UNCHANGED compVars
    \/ SetNodePid /\ UNCHANGED compVars
    \/ Trap /\ UNCHANGED compVars
    \/ WaitReturns /\ UNCHANGED compVars
    \/ (\E p \in Pids : ServiceExits(p)) /\ UNCHANGED compVars
    \/ (\E sig \in {"INT", "TERM"} : Signal(sig)) /\ UNCHANGED compVars

ScriptSpec == ScriptInit /\ [][ScriptNext]_vars


----------------------------------------------------------------------------
(* Properties.                                                             *)

\* The request of run r fails in this step: a success:false answer, or a
\* rejection of fetch() or of response.json().
RequestFails(r) == JsonFailure(r) \/ FetchReject(r) \/ JsonReject(r)

\* C1: when the request for a view fails in the most recent run, by a
\* success:false answer or by a transport failure, that view's state is
\* null afterwards and its tab shows the placeholder, not the result an
\* earlier run stored.
C1_FailedViewIsNull ==
    [][\A r \in Runs, v \in Views :
          (/\ r \in 1..Len(runs)
           /\ runs[r].latest
           /\ runs[r].req = v
           /\ RequestFails(r))
              => (ViewState(v) = Null /\ IsPlaceholder(RenderTab(v)))']_vars

\* C2: when a request of a run fails, by a success:false answer or by a
\* transport failure, and the run has calculators left to ask, the run goes
\* on and issues the next request.
C2_FailureDoesNotStopRun ==
    [][\A r \in Runs :
          (r \in 1..Len(runs) /\ RequestFails(r) /\ runs[r].req < 4)
              => /\ Len(runs') = Len(runs)
                 /\ runs'[r].req = runs[r].req + 1
                 /\ Len(runs'[r].sent) = runs[r].req + 1]_vars

\* C3: whenever the costs prop is null or an empty list, all four tabs show
\* their placeholder.
C3_NoCostsNoData ==
    ~HasCosts(costs) => \A v \in Views : IsPlaceholder(RenderTab(v))

TransactionFields == {"amount", "type", "date", "description", "category"}

\* C4: every record in the body of every request has the fields amount, type
\* and date, and besides them at most description and category.
C4_TransactionShape ==
    \A r \in 1..Len(runs) : \A i \in 1..Len(runs[r].sent) :
        \A k \in 1..Len(runs[r].sent[i].transactions) :
            LET fields == DOMAIN runs[r].sent[i].transactions[k] IN
                /\ {"amount", "type", "date"} \subseteq fields
                /\ fields \subseteq TransactionFields

InsufficientLine == <<"p", "Insufficient data for moving average calculation">>

\* C5: when trends is present, the trends tab shows the insufficient-data
\* message, and no number, exactly when moving_average is missing or empty;
\* otherwise it shows the last element of moving_average.
C5_EmptyMovingAverage ==
    Truthy(trends) =>
        LET ma == trends[2].moving_average
            shown == renderTrends(trends)[3].moving_average
        IN  IF ma = Undef \/ Len(Items(ma)) = 0
            THEN shown = InsufficientLine
            ELSE /\ shown[1] = "value"
                 /\ shown[2] = ToFixed2(Items(ma)[Len(Items(ma))])

C5_Witness ==
    /\ Truthy(trends)
    /\ trends[2].moving_average = <<"array", <<>> >>
    /\ renderTrends(trends)[3].moving_average = InsufficientLine

\* C6: all requests a run has posted carry the same transaction list, the
\* one prepared from the costs the run started with, whatever the costs prop
\* has become since.
C6_SameTransactions ==
    \A r \in 1..Len(runs) :
        /\ Len(runs[r].sent) = runs[r].req
        /\ \A i \in 1..Len(runs[r].sent) :
              /\ runs[r].sent[i].url = Url[i]
              /\ runs[r].sent[i].transactions =
                     StringifyAll(prepareTransactions(runs[r].costs))

C6_Witness ==
    \E r \in 1..Len(runs) :
        /\ runs[r].req = 4
        /\ costs # runs[r].costs
        /\ HasCosts(costs)
        /\ ~effectPending
        /\ runs[r].sent[4].transactions = runs[r].sent[1].transactions

\* C7: when the script has ended because of an INT or TERM signal, every
\* service it had launched has been sent a signal by it.
C7_SignalKillsServices ==
    ending \in {"signal", "trap"} => Launched \subseteq killed

\* C8: every run ends by setting loading to false, so once no run is
\* suspended any more (and none is about to start) loading is false.
C8_LoadingReset ==
    (Len(runs) = 0 /\ ~effectPending) => loading = FALSE

\* C9: loading is true whenever some run has a request in flight.
C9_LoadingWhileInFlight ==
    Len(runs) > 0 => loading = TRUE

====
